---- MODULE Spec2Model ----
(***************************************************************************)
(* A model of the drawille Canvas (src/src/lib.rs): the sparse cell store, *)
(* the pixel operations, the text overlay, the serialisation to rows and   *)
(* the line and ellipse rasterisers.                                       *)
(*                                                                         *)
(* Characters are modelled by their code points (' ' = 32, U+2800 = 10240),*)
(* strings by sequences of code points, and a PixelColor by the ANSI       *)
(* foreground code the colored crate prints for it (White = 37, Red = 31). *)
(* Sequences are 1-based: row y of rows() is Rows(c)[y + 1].               *)
(***************************************************************************)
EXTENDS Integers, Sequences, FiniteSets, TLC

VARIABLES
    cvs,      \* the Canvas: [chars, width, height]
    hist,     \* history: the calls made, hist[1] the constructor call
    past,     \* history: past[k] is the Canvas as hist[k] left it, for k < Len(hist)
    lcall,    \* line rasteriser: the call's endpoints, <<>> before the call
    writes,   \* line rasteriser: the pixels handed to set, in order
    panicked, \* line rasteriser: the call ended in an overflow panic
    ecall,    \* ellipse: the call, [kind: "box" or "center", args], <<>> before it
    epc,      \* ellipse: "idle", "box", "center" (called), "loop", "tail", "done"
    eargs,    \* ellipse: <<xm, ym, a, b>> of ellipse_center
    eloc,     \* ellipse: the locals [dx, dy, err] of ellipse_center
    written,  \* ellipse: the pixels handed to set so far
    turtle,   \* the Turtle: [x, y, brush, use_color, brush_color, rotation, cvs], <<>> before it
    thist,    \* Turtle history: the calls made on the Turtle, the constructor first
    tprev,    \* Turtle history: the Turtle the last call was made on
    tpanicked \* the last Turtle call ended in an overflow panic of its line

vars == <<cvs, hist, past, lcall, writes, panicked, ecall, epc, eargs, eloc, written,
          turtle, thist, tprev, tpanicked>>

----------------------------------------------------------------------------
(* Bounds of the model.                                                    *)

\* Number of Canvas operations applied after construction.
MaxOps == 3
\* Largest coordinate of the exhaustive grid of line endpoints.
MaxCoord == 3
\* Largest corner coordinate of ellipse_box.
MaxBox == 4
\* Largest centre coordinate and largest radius of ellipse_center.
MaxCenter == 3
MaxRadius == 3

----------------------------------------------------------------------------
(* Program constants and machine arithmetic.                               *)

Blank == 32
BrailleBase == 10240
Newline == 10
White == 37
Red == 31
U16 == 65536

PIXEL_MAP == << <<1, 8>>, <<2, 16>>, <<4, 32>>, <<64, 128>> >>

\* `v as u16` for a non-negative v.
AsU16(v) == v % U16

Max(a, b) == IF a >= b THEN a ELSE b
Min(a, b) == IF a <= b THEN a ELSE b
Abs(a) == IF a >= 0 THEN a ELSE -a

\* Single-bit operands only (b is an entry of PIXEL_MAP).
HasBit(m, b) == (m \div b) % 2 = 1
BitOr(m, b) == IF HasBit(m, b) THEN m ELSE m + b
BitAndNot(m, b) == IF HasBit(m, b) THEN m - b ELSE m
BitXor(m, b) == IF HasBit(m, b) THEN m - b ELSE m + b

----------------------------------------------------------------------------
(* The cell store and the pixel operations.                                *)

DefaultCell == [mask |-> 0, ch |-> Blank, colored |-> FALSE, color |-> White]

New(width, height) ==
    [chars |-> << >>, width |-> AsU16(width \div 2), height |-> AsU16(height \div 4)]

\* The (row, col) tuple the code computes: <<(x / 2) as u16, (y / 4) as u16>>.
Key(x, y) == <<AsU16(x \div 2), AsU16(y \div 4)>>

\* Faulty variant: the two columns of PIXEL_MAP exchanged.
PixelBit_Columns(x, y) == PIXEL_MAP[(y % 4) + 1][((x + 1) % 2) + 1]

PixelBit(x, y) == PIXEL_MAP[(y % 4) + 1][(x % 2) + 1]

\* chars.entry(k).or_insert(default), read.
Entry(c, k) == IF k \in DOMAIN c.chars THEN c.chars[k] ELSE DefaultCell

\* chars.entry(k).or_insert(default), then the cell written in place.
Put(c, k, cell) == [c EXCEPT !.chars = (k :> cell) @@ c.chars]

\* Faulty variant: clear also forgets the configured minimums.
Clear_ResetsMinimums(c) == [chars |-> << >>, width |-> 0, height |-> 0]

Clear(c) == [c EXCEPT !.chars = << >>]

Set(c, x, y) ==
    LET a == Entry(c, Key(x, y))
    IN  Put(c, Key(x, y), [mask |-> BitOr(a.mask, PixelBit(x, y)), ch |-> Blank,
                           colored |-> FALSE, color |-> White])

SetColored(c, x, y, color) ==
    LET a == Entry(c, Key(x, y))
    IN  Put(c, Key(x, y), [mask |-> BitOr(a.mask, PixelBit(x, y)), ch |-> Blank,
                           colored |-> TRUE, color |-> color])

\* Faulty variant: the dots of the cell survive set_char.
SetChar_KeepsDots(c, x, y, ch) ==
    Put(c, Key(x, y), [mask |-> Entry(c, Key(x, y)).mask, ch |-> ch,
                       colored |-> FALSE, color |-> White])

SetChar(c, x, y, ch) ==
    Put(c, Key(x, y), [mask |-> 0, ch |-> ch, colored |-> FALSE, color |-> White])

\* Faulty variant: unset flips the bit instead of masking it out.
Unset_Flips(c, x, y) ==
    LET a == Entry(c, Key(x, y))
    IN  Put(c, Key(x, y), [a EXCEPT !.mask = BitXor(a.mask, PixelBit(x, y))])

Unset(c, x, y) ==
    LET a == Entry(c, Key(x, y))
    IN  Put(c, Key(x, y), [a EXCEPT !.mask = BitAndNot(a.mask, PixelBit(x, y))])

\* Faulty variant: toggle turns the bit on instead of flipping it.
Toggle_Sets(c, x, y) ==
    LET a == Entry(c, Key(x, y))
    IN  Put(c, Key(x, y), [a EXCEPT !.mask = BitOr(a.mask, PixelBit(x, y))])

Toggle(c, x, y) ==
    LET a == Entry(c, Key(x, y))
    IN  Put(c, Key(x, y), [a EXCEPT !.mask = BitXor(a.mask, PixelBit(x, y))])

Get(c, x, y) ==
    IF Key(x, y) \in DOMAIN c.chars
    THEN HasBit(c.chars[Key(x, y)].mask, PixelBit(x, y))
    ELSE FALSE

\* text: the characters at index i (from 0) with 2 * i <= max_width are written,
\* the first character past max_width returns.
RECURSIVE TextFrom(_, _, _, _, _, _)
TextFrom(c, x, y, maxWidth, s, i) ==
    IF i >= Len(s) \/ 2 * i > maxWidth
    THEN c
    ELSE TextFrom(SetChar(c, x + 2 * i, y, s[i + 1]), x, y, maxWidth, s, i + 1)

\* Faulty variant: the character whose offset equals max_width is not written.
Text_StopsAtWidth(c, x, y, maxWidth, s) == TextFrom(c, x, y, maxWidth - 1, s, 0)

Text(c, x, y, maxWidth, s) == TextFrom(c, x, y, maxWidth, s, 0)

----------------------------------------------------------------------------
(* Serialisation.                                                          *)

RECURSIVE SetMax(_, _)
SetMax(S, floor) ==
    IF S = {} THEN floor
    ELSE LET v == CHOOSE v \in S : TRUE
         IN  SetMax(S \ {v}, Max(v, floor))

MaxRow(c) == SetMax({k[1] : k \in DOMAIN c.chars}, c.width)
\* Faulty variant: the configured minimum height is ignored.
MaxCol_NoMinimum(c) == SetMax({k[2] : k \in DOMAIN c.chars}, 0)

MaxCol(c) == SetMax({k[2] : k \in DOMAIN c.chars}, c.height)

RECURSIVE Digits(_)
Digits(n) == IF n < 10 THEN <<48 + n>> ELSE Digits(n \div 10) \o <<48 + (n % 10)>>

\* The colored crate's rendering of a glyph: ESC [ <code> m, glyph, ESC [ 0 m.
Colorize(glyph, color) ==
    <<27, 91>> \o Digits(color) \o <<109, glyph, 27, 91, 48, 109>>

\* What the match in rows() appends to the row for one cell.
RenderCell(cell) ==
    IF cell.mask = 0 THEN <<cell.ch>>
    ELSE IF ~cell.colored THEN <<BrailleBase + cell.mask>>
    ELSE Colorize(BrailleBase + cell.mask, cell.color)

\* The row string after the cells of columns 0..n-1 of cell row y were appended.
RECURSIVE RowUpTo(_, _, _)
RowUpTo(c, y, n) ==
    IF n = 0 THEN << >>
    ELSE RowUpTo(c, y, n - 1) \o RenderCell(Entry(c, <<n - 1, y>>))

Rows(c) == [i \in 1..(MaxCol(c) + 1) |-> RowUpTo(c, i - 1, MaxRow(c) + 1)]

RECURSIVE Join(_, _)
Join(rows, sep) ==
    IF Len(rows) = 0 THEN << >>
    ELSE IF Len(rows) = 1 THEN rows[1]
    ELSE rows[1] \o <<sep>> \o Join(Tail(rows), sep)

Frame(c) == Join(Rows(c), Newline)

----------------------------------------------------------------------------
(* The line rasteriser.                                                    *)
(*                                                                         *)
(* i * ydiff and i * xdiff are u32 products.  They are computed here on    *)
(* 16-bit limbs, for operands below 2^20, because a product of two such    *)
(* operands does not fit the checker's integers; the result is the pair    *)
(* hi * 2^16 + lo of the wrapped product and whether the product left u32. *)

MulU32(a, b) ==
    LET al == a % U16
        ah == a \div U16
        bl == b % U16
        bh == b \div U16
        p0 == (al % 256) * bl
        p1 == (al \div 256) * bl
        lo0 == p0 + (p1 % 256) * 256
        hi0 == (p1 \div 256) + (lo0 \div U16) + ah * bl + al * bh
    IN  [lo |-> lo0 % U16, hi |-> hi0 % U16, ovf |-> hi0 >= U16 \/ ah * bh > 0]

\* (hi * 2^16 + lo) / r for 0 < r < 2^20, by long division on 8-bit digits.
DivU32(p, r) ==
    LET q2 == p.hi \div r
        t1 == (p.hi % r) * 256 + (p.lo \div 256)
        q1 == t1 \div r
        t0 == (t1 % r) * 256 + (p.lo % 256)
        q0 == t0 \div r
    IN  q2 * U16 + q1 * 256 + q0

XDiff(x1, x2) == Max(x1, x2) - Min(x1, x2)
Dir(v1, v2) == IF v1 <= v2 THEN 1 ELSE -1
Radius(x1, y1, x2, y2) == Max(XDiff(x1, x2), XDiff(y1, y2))

\* One axis of iteration i: v1 + ((i * diff) / r) as i32 * dir, untouched if diff = 0.
LineAxis(v1, v2, r, i) ==
    IF XDiff(v1, v2) # 0
    THEN v1 + DivU32(MulU32(i, XDiff(v1, v2)), r) * Dir(v1, v2)
    ELSE v1

\* The pixel iteration i hands to set (arithmetic wrapping).
LinePoint(x1, y1, x2, y2, i) ==
    LET r == Radius(x1, y1, x2, y2)
    IN  <<LineAxis(x1, x2, r, i), LineAxis(y1, y2, r, i)>>

\* Iteration i multiplies past u32.
LineOverflows(x1, y1, x2, y2, i) ==
    \/ XDiff(y1, y2) # 0 /\ MulU32(i, XDiff(y1, y2)).ovf
    \/ XDiff(x1, x2) # 0 /\ MulU32(i, XDiff(x1, x2)).ovf

\* The call panics: an overflow-checked build reaches an overflowing iteration.
LinePanics(x1, y1, x2, y2, prof) ==
    /\ prof = "debug"
    /\ \E i \in 0..Radius(x1, y1, x2, y2) : LineOverflows(x1, y1, x2, y2, i)

\* Number of iterations that reach their call of set: all r + 1 of them, or
\* those before the first overflowing one.
LineCount(x1, y1, x2, y2, prof) ==
    LET r == Radius(x1, y1, x2, y2)
    IN  IF LinePanics(x1, y1, x2, y2, prof)
        THEN CHOOSE i \in 0..r : /\ LineOverflows(x1, y1, x2, y2, i)
                                 /\ \A j \in 0..(i - 1) : ~LineOverflows(x1, y1, x2, y2, j)
        ELSE r + 1

\* The pixels the call hands to set, in order.
LineWrites(x1, y1, x2, y2, prof) ==
    [k \in 1..LineCount(x1, y1, x2, y2, prof) |-> LinePoint(x1, y1, x2, y2, k - 1)]

\* set applied to ps[lo], ..., ps[hi] in order.  The range is halved, and the
\* Canvas so far is looked at before the range is split, so that the evaluation
\* nests to the logarithm of the length and not to the length.
RECURSIVE SetRange(_, _, _, _)
SetRange(c, ps, lo, hi) ==
    IF lo > hi \/ DOMAIN c = {} THEN c
    ELSE IF lo = hi THEN Set(c, ps[lo][1], ps[lo][2])
    ELSE LET mid == (lo + hi) \div 2
         IN  SetRange(SetRange(c, ps, lo, mid), ps, mid + 1, hi)

SetAll(c, ps, k) == SetRange(c, ps, k, Len(ps))

Line(c, x1, y1, x2, y2, prof) == SetAll(c, LineWrites(x1, y1, x2, y2, prof), 1)

RECURSIVE SetColoredRange(_, _, _, _, _)
SetColoredRange(c, ps, color, lo, hi) ==
    IF lo > hi \/ DOMAIN c = {} THEN c
    ELSE IF lo = hi THEN SetColored(c, ps[lo][1], ps[lo][2], color)
    ELSE LET mid == (lo + hi) \div 2
         IN  SetColoredRange(SetColoredRange(c, ps, color, lo, mid), ps, color, mid + 1, hi)

SetAllColored(c, ps, color, k) == SetColoredRange(c, ps, color, k, Len(ps))

\* line_colored: the iterations of line, each handing its pixel to set_colored.
LineColored(c, x1, y1, x2, y2, color, prof) ==
    SetAllColored(c, LineWrites(x1, y1, x2, y2, prof), color, 1)

----------------------------------------------------------------------------
(* Canvas operations: one action per public method, applied to a Canvas    *)
(* constructed by new(w, h).                                               *)

\* The build profiles: "debug" panics on arithmetic overflow, "release" wraps.
Profiles == {"debug", "release"}

Dims == {<<0, 0>>, <<10, 10>>}
SetInputs == {<<0, 0>>, <<5, 4>>, <<23, 9>>}
UnsetInputs == {<<5, 4>>, <<22, 13>>}
ToggleInputs == {<<0, 0>>, <<9, 14>>}
SetColoredInputs == {<<1, 3, Red>>}
SetCharInputs == {<<0, 1, 65>>, <<5, 4, 66>>}
TextInputs == {<<3, 4, 2, <<72, 105, 33>>>>}
LineInputs == {<<2, 2, 8, 8>>, <<3, 1, 0, 0>>}

Op(name, args) == [op |-> name, args |-> args]

Apply(c, o) ==
    /\ Len(hist) <= MaxOps
    /\ cvs' = c
    /\ hist' = Append(hist, o)
    /\ past' = Append(past, cvs)
    /\ UNCHANGED <<lcall, writes, panicked, ecall, epc, eargs, eloc, written>>
    /\ UNCHANGED <<turtle, thist, tprev, tpanicked>>

DoSet == \E p \in SetInputs : Apply(Set(cvs, p[1], p[2]), Op("set", p))
DoUnset == \E p \in UnsetInputs : Apply(Unset(cvs, p[1], p[2]), Op("unset", p))
DoToggle == \E p \in ToggleInputs : Apply(Toggle(cvs, p[1], p[2]), Op("toggle", p))
DoSetColored ==
    \E p \in SetColoredInputs :
        Apply(SetColored(cvs, p[1], p[2], p[3]), Op("set_colored", p))
DoSetChar ==
    \E p \in SetCharInputs : Apply(SetChar(cvs, p[1], p[2], p[3]), Op("set_char", p))
DoText ==
    \E p \in TextInputs : Apply(Text(cvs, p[1], p[2], p[3], p[4]), Op("text", p))
\* A call that panics does not return: the action is the call that completes.
DoLine ==
    \E p \in LineInputs, prof \in Profiles :
        /\ ~LinePanics(p[1], p[2], p[3], p[4], prof)
        /\ Apply(Line(cvs, p[1], p[2], p[3], p[4], prof), Op("line", p))
DoClear == Apply(Clear(cvs), Op("clear", << >>))

Init ==
    /\ \E d \in Dims : cvs = New(d[1], d[2]) /\ hist = <<Op("new", d)>>
    /\ past = << >>
    /\ lcall = << >>
    /\ writes = << >>
    /\ panicked = FALSE
    /\ ecall = << >>
    /\ epc = "idle"
    /\ eargs = << >>
    /\ eloc = << >>
    /\ written = {}
    /\ turtle = << >>
    /\ thist = << >>
    /\ tprev = << >>
    /\ tpanicked = FALSE

Next ==
    \/ DoSet
    \/ DoUnset
    \/ DoToggle
    \/ DoSetColored
    \/ DoSetChar
    \/ DoText
    \/ DoLine
    \/ DoClear

Spec == Init /\ [][Next]_vars

----------------------------------------------------------------------------
(* The text overlay on its own: up to MaxTexts calls of text, with every   *)
(* max_width up to MaxWidth and strings shorter and longer than it allows. *)

MaxTexts == 2
MaxWidth == 5

TextStrings == {<< >>, <<65>>, <<72, 105, 33>>, <<87, 73, 68, 69>>}
TextGrid == {0, 3} \X {5} \X (0..MaxWidth) \X TextStrings

DoTextGrid ==
    \E p \in TextGrid :
        /\ Len(hist) <= MaxTexts
        /\ Apply(Text(cvs, p[1], p[2], p[3], p[4]), Op("text", p))

NextText == DoTextGrid

SpecText == Init /\ [][NextText]_vars

----------------------------------------------------------------------------
(* The pixel store over the 32-bit coordinate range: set is called with    *)
(* pixels whose cell column x / 2 or cell row y / 4 does not fit u16, next *)
(* to pixels of the first cells.                                           *)

\* Number of calls of set.
MaxSets == 3

WideInputs == {<<0, 0>>, <<1, 0>>, <<5, 4>>, <<131072, 0>>, <<131077, 4>>, <<3, 262146>>}

DoSetWide ==
    \E p \in WideInputs :
        /\ Len(hist) <= MaxSets
        /\ Apply(Set(cvs, p[1], p[2]), Op("set", p))

NextWide == DoSetWide

SpecWide == Init /\ [][NextWide]_vars

----------------------------------------------------------------------------
(* The line rasteriser on its own: line(x1, y1, x2, y2) is called once,    *)
(* under either build profile, and the pixels it hands to set are recorded *)
(* in order.  The endpoints are those of a small grid and lines longer     *)
(* than 65535 pixels, where i * xdiff leaves u32.                          *)

GridLines == (0..MaxCoord) \X (0..MaxCoord) \X (0..MaxCoord) \X (0..MaxCoord)
LongLines == {<<0, 0, 65536, 0>>, <<70000, 3, 0, 0>>}

LineCall ==
    \E p \in GridLines \cup LongLines, prof \in Profiles :
        /\ lcall = << >>
        /\ lcall' = p
        /\ writes' = LineWrites(p[1], p[2], p[3], p[4], prof)
        /\ panicked' = LinePanics(p[1], p[2], p[3], p[4], prof)
        /\ UNCHANGED <<cvs, hist, past, ecall, epc, eargs, eloc, written>>
        /\ UNCHANGED <<turtle, thist, tprev, tpanicked>>

NextLine == LineCall

SpecLine == Init /\ [][NextLine]_vars

----------------------------------------------------------------------------
(* The ellipse rasteriser, one action per call and per loop iteration.     *)
(* The arguments are small enough for the i32 arithmetic of err to be      *)
(* exact.  A u32 coordinate of 2^31 or more, which only a wrapping         *)
(* subtraction could produce here, would read as the negative number of    *)
(* the same bit pattern.                                                   *)

\* i32 division, which truncates toward zero.
TruncDiv(n, d) == IF n >= 0 THEN n \div d ELSE -((-n) \div d)

\* The <<xm, ym, a, b>> ellipse_box hands to ellipse_center.
EllipseBoxArgs(x1, y1, x2, y2) ==
    LET delta_x == TruncDiv(x1 - x2, 2)
        delta_y == TruncDiv(y1 - y2, 2)
    IN  <<x2 + delta_x, y2 + delta_y, Abs(delta_x), Abs(delta_y)>>

\* The locals of ellipse_center before its loop.
EllipseLocals(a, b) ==
    [dx |-> 0, dy |-> b, err |-> b * b - (2 * b - 1) * (a * a)]

\* Faulty variant: the left mirror is written without the guard.
MirrorsLeft_Unguarded(xm, dx) == TRUE

\* The guards of the mirrored writes.
MirrorsLeft(xm, dx) == xm >= dx
MirrorsUp(ym, dy) == ym >= dy

\* The calls of set of one iteration of the main loop, in order.
LoopWrites(xm, ym, dx, dy) ==
    <<<<xm + dx, ym + dy>>>>
    \o (IF MirrorsLeft(xm, dx)
        THEN <<<<xm - dx, ym + dy>>>>
             \o (IF MirrorsUp(ym, dy) THEN <<<<xm - dx, ym - dy>>>> ELSE << >>)
        ELSE << >>)
    \o (IF MirrorsUp(ym, dy) THEN <<<<xm + dx, ym - dy>>>> ELSE << >>)

\* The calls of set of one iteration of the trailing loop, dx already advanced.
TailWrites(xm, ym, dx) ==
    <<<<xm + dx, ym>>>> \o (IF MirrorsLeft(xm, dx) THEN <<<<xm - dx, ym>>>> ELSE << >>)

\* The locals after the error update of one iteration, and whether it breaks.
LoopUpdate(a, b, l) ==
    LET a2 == a * a
        b2 == b * b
        err_plus == l.err + l.err
        new_err1 == (2 * l.dx + 1) * b2
        stepx == err_plus < new_err1
        dx1 == IF stepx THEN l.dx + 1 ELSE l.dx
        err1 == IF stepx THEN l.err + new_err1 ELSE l.err
        new_err2 == (2 * l.dy - 1) * a2
        stepy == err_plus > -new_err2
        brk == stepy /\ l.dy <= 1
    IN  [brk |-> brk,
         loc |-> IF stepy /\ ~brk
                 THEN [dx |-> dx1, dy |-> l.dy - 1, err |-> err1 - new_err2]
                 ELSE [dx |-> dx1, dy |-> l.dy, err |-> err1]]

Written(ps) == {ps[i] : i \in 1..Len(ps)}

EllipseIdle == UNCHANGED <<hist, past, lcall, writes, panicked, turtle, thist, tprev, tpanicked>>

EllipseBoxCall ==
    \E x1 \in 0..MaxBox, y1 \in 0..MaxBox, x2 \in 0..MaxBox, y2 \in 0..MaxBox :
        /\ epc = "idle"
        /\ ecall' = [kind |-> "box", args |-> <<x1, y1, x2, y2>>]
        /\ eargs' = EllipseBoxArgs(x1, y1, x2, y2)
        /\ epc' = "box"
        /\ UNCHANGED <<cvs, eloc, written>>
        /\ EllipseIdle

EllipseCenterCall ==
    \E xm \in 0..MaxCenter, ym \in 0..MaxCenter, a \in 0..MaxRadius, b \in 0..MaxRadius :
        /\ epc = "idle"
        /\ ecall' = [kind |-> "center", args |-> <<xm, ym, a, b>>]
        /\ eargs' = <<xm, ym, a, b>>
        /\ epc' = "center"
        /\ UNCHANGED <<cvs, eloc, written>>
        /\ EllipseIdle

EllipseEnter ==
    /\ epc \in {"box", "center"}
    /\ eloc' = EllipseLocals(eargs[3], eargs[4])
    /\ epc' = "loop"
    /\ UNCHANGED <<cvs, ecall, eargs, written>>
    /\ EllipseIdle

EllipseLoop ==
    /\ epc = "loop"
    /\ LET ps == LoopWrites(eargs[1], eargs[2], eloc.dx, eloc.dy)
           u == LoopUpdate(eargs[3], eargs[4], eloc)
       IN  /\ cvs' = SetAll(cvs, ps, 1)
           /\ written' = written \cup Written(ps)
           /\ eloc' = u.loc
           /\ epc' = IF u.brk THEN "tail" ELSE "loop"
    /\ UNCHANGED <<ecall, eargs>>
    /\ EllipseIdle

EllipseTail ==
    /\ epc = "tail"
    /\ eloc.dx < eargs[3]
    /\ LET ps == TailWrites(eargs[1], eargs[2], eloc.dx + 1)
       IN  /\ cvs' = SetAll(cvs, ps, 1)
           /\ written' = written \cup Written(ps)
    /\ eloc' = [eloc EXCEPT !.dx = eloc.dx + 1]
    /\ UNCHANGED <<ecall, epc, eargs>>
    /\ EllipseIdle

EllipseReturn ==
    /\ epc = "tail"
    /\ ~(eloc.dx < eargs[3])
    /\ epc' = "done"
    /\ UNCHANGED <<cvs, ecall, eargs, eloc, written>>
    /\ EllipseIdle

NextEllipse ==
    \/ EllipseBoxCall
    \/ EllipseCenterCall
    \/ EllipseEnter
    \/ EllipseLoop
    \/ EllipseTail
    \/ EllipseReturn

SpecEllipse == Init /\ [][NextEllipse]_vars

\* The call runs on: every step of ellipse_center that can change the state is
\* taken.  An iteration that leaves every variable as it was is a stuttering
\* step, and a loop that only stutters never leaves "loop".
SpecEllipseFair ==
    /\ SpecEllipse
    /\ WF_vars(EllipseEnter)
    /\ WF_vars(EllipseLoop)
    /\ WF_vars(EllipseTail)
    /\ WF_vars(EllipseReturn)

----------------------------------------------------------------------------
(* The Turtle.  Its f32 fields x and y are modelled on the values that are *)
(* multiples of 0.5, which f32 holds exactly, as the integer number of     *)
(* halves: x = 3 stands for 1.5.  Distances are in halves too.  The        *)
(* rotation is a whole number of degrees.  All values are far inside the   *)
(* range of i32, where `as i32` is exact.                                  *)

\* f32::round on a number of halves: to the nearest integer, ties away from zero.
Round(h) == IF h >= 0 THEN (h + 1) \div 2 ELSE -((1 - h) \div 2)

\* cmp::max(0, v.round() as i32) as u32
Clamp(h) == Max(0, Round(h))

TurtleFrom(x, y, c) ==
    [cvs |-> c, x |-> x, y |-> y, brush |-> TRUE, use_color |-> FALSE,
     brush_color |-> White, rotation |-> 0]

TurtleUp(t) == [t EXCEPT !.brush = FALSE]
TurtleDown(t) == [t EXCEPT !.brush = TRUE]
TurtleToggle(t) == [t EXCEPT !.brush = ~t.brush]
TurtleColor(t, color) == [t EXCEPT !.use_color = TRUE, !.brush_color = color]
TurtleCleanBrush(t) == [t EXCEPT !.use_color = FALSE]
TurtleRight(t, angle) == [t EXCEPT !.rotation = t.rotation + angle]
TurtleLeft(t, angle) == [t EXCEPT !.rotation = t.rotation - angle]
TurtleWidth(t, width) == [t EXCEPT !.cvs.width = AsU16(width)]
TurtleHeight(t, height) == [t EXCEPT !.cvs.height = AsU16(height)]

BrushDown(t) == t.brush

\* teleport: the Turtle it leaves, and whether its line panicked.  A panic leaves
\* the pixels written before it and the position as it was.
Teleport(t, x, y, prof) ==
    LET x1 == Clamp(t.x)
        y1 == Clamp(t.y)
        x2 == Clamp(x)
        y2 == Clamp(y)
        panics == BrushDown(t) /\ LinePanics(x1, y1, x2, y2, prof)
        drawn == IF ~BrushDown(t) THEN t.cvs
                 ELSE IF t.use_color
                 THEN LineColored(t.cvs, x1, y1, x2, y2, t.brush_color, prof)
                 ELSE Line(t.cvs, x1, y1, x2, y2, prof)
    IN  [panicked |-> panics,
         t |-> IF panics THEN [t EXCEPT !.cvs = drawn]
               ELSE [t EXCEPT !.cvs = drawn, !.x = x, !.y = y]]

\* Number of calls made on a Turtle after its construction.
MaxTurtleOps == 3

StartInputs == {<<0, 0>>, <<-3, 5>>}
TeleportInputs == {<<5, 1>>, <<-3, 0>>, <<0, 7>>}
\* A move of 1048575 pixels: iteration 4097 of its line multiplies past u32.
LongMoves == {<<2097150, 0>>}
DistInputs == {4, -3}
AngleInputs == {90}
SizeInputs == {6}

\* The destinations forward computes.  With rotation 0 the cosine is 1 and the sine
\* is 0 exactly; for any other rotation the f32 cosine and sine are not modelled
\* and the destination is any of the positions below.
ForwardDests(t, dist) ==
    IF t.rotation = 0 THEN {<<t.x + dist, t.y>>} ELSE TeleportInputs

\* The moves made under each build profile; the move of LongMoves is followed
\* in the overflow-checked build, where its line stops at the panic, and as the
\* first call on the Turtle.
MoveProfiles(p) == IF p \in LongMoves THEN {"debug"} ELSE Profiles
MoveInputs == TeleportInputs \cup (IF Len(thist) = 1 THEN LongMoves ELSE {})

TOp(name, args, to) == [op |-> name, args |-> args, to |-> to]

TurtleIdle ==
    UNCHANGED <<cvs, hist, past, lcall, writes, panicked, ecall, epc, eargs, eloc, written>>

TurtleConstruct(t, o) ==
    /\ turtle = << >>
    /\ turtle' = t
    /\ thist' = <<o>>
    /\ UNCHANGED <<tprev, tpanicked>>
    /\ TurtleIdle

\* A call on a Turtle whose last call returned.
TurtleApply(t, o, p) ==
    /\ turtle # << >>
    /\ ~tpanicked
    /\ Len(thist) <= MaxTurtleOps
    /\ turtle' = t
    /\ thist' = Append(thist, o)
    /\ tprev' = turtle
    /\ tpanicked' = p
    /\ TurtleIdle

DoTurtleNew ==
    \E p \in StartInputs :
        TurtleConstruct(TurtleFrom(p[1], p[2], New(0, 0)), TOp("new", p, p))
DoTurtleFromCanvas ==
    \E p \in StartInputs :
        TurtleConstruct(TurtleFrom(p[1], p[2], cvs), TOp("from_canvas", p, p))
DoTurtleUp == TurtleApply(TurtleUp(turtle), TOp("up", << >>, << >>), FALSE)
DoTurtleDown == TurtleApply(TurtleDown(turtle), TOp("down", << >>, << >>), FALSE)
DoTurtleToggle == TurtleApply(TurtleToggle(turtle), TOp("toggle", << >>, << >>), FALSE)
DoTurtleColor ==
    TurtleApply(TurtleColor(turtle, Red), TOp("color", <<Red>>, << >>), FALSE)
DoTurtleCleanBrush ==
    TurtleApply(TurtleCleanBrush(turtle), TOp("clean_brush", << >>, << >>), FALSE)
DoTurtleRight ==
    \E a \in AngleInputs :
        TurtleApply(TurtleRight(turtle, a), TOp("right", <<a>>, << >>), FALSE)
DoTurtleLeft ==
    \E a \in AngleInputs :
        TurtleApply(TurtleLeft(turtle, a), TOp("left", <<a>>, << >>), FALSE)
DoTurtleWidth ==
    \E w \in SizeInputs :
        TurtleApply(TurtleWidth(turtle, w), TOp("width", <<w>>, << >>), FALSE)
DoTurtleHeight ==
    \E h \in SizeInputs :
        TurtleApply(TurtleHeight(turtle, h), TOp("height", <<h>>, << >>), FALSE)
DoTurtleTeleport ==
    \E p \in MoveInputs :
        \E prof \in MoveProfiles(p) :
            LET r == Teleport(turtle, p[1], p[2], prof)
            IN  TurtleApply(r.t, TOp("teleport", p, p), r.panicked)
DoTurtleForward ==
    \E d \in DistInputs :
        /\ turtle # << >>
        /\ \E p \in ForwardDests(turtle, d), prof \in Profiles :
               LET r == Teleport(turtle, p[1], p[2], prof)
               IN  TurtleApply(r.t, TOp("forward", <<d>>, p), r.panicked)
DoTurtleBack ==
    \E d \in DistInputs :
        /\ turtle # << >>
        /\ \E p \in ForwardDests(turtle, -d), prof \in Profiles :
               LET r == Teleport(turtle, p[1], p[2], prof)
               IN  TurtleApply(r.t, TOp("back", <<d>>, p), r.panicked)

NextTurtle ==
    \/ DoTurtleNew
    \/ DoTurtleFromCanvas
    \/ DoTurtleUp
    \/ DoTurtleDown
    \/ DoTurtleToggle
    \/ DoTurtleColor
    \/ DoTurtleCleanBrush
    \/ DoTurtleRight
    \/ DoTurtleLeft
    \/ DoTurtleWidth
    \/ DoTurtleHeight
    \/ DoTurtleTeleport
    \/ DoTurtleForward
    \/ DoTurtleBack

SpecTurtle == Init /\ [][NextTurtle]_vars

----------------------------------------------------------------------------
(* Vocabulary of the properties.                                           *)

N == Len(hist)
LastOp == hist[N]
Did(name) == N >= 2 /\ LastOp.op = name
\* The Canvas the last call was applied to.
Before == past[N - 1]
\* The last two calls are the same call.
Repeated(name) ==
    /\ N >= 3
    /\ hist[N].op = name
    /\ hist[N - 1].op = name
    /\ hist[N].args = hist[N - 1].args
OnlyOps(names) == \A k \in 2..N : hist[k].op \in names

\* The cell of a pixel, as the specification defines it.
CellOf(x, y) == <<x \div 2, y \div 4>>
\* The eight pixels of a cell.
PixelsOf(k) == {<<2 * k[1] + i, 4 * k[2] + j>> : i \in 0..1, j \in 0..3}
\* The dot bit of a pixel: left column rows 0-3, right column rows 0-3.
DotBit(x, y) ==
    IF x % 2 = 0 THEN <<1, 2, 4, 64>>[(y % 4) + 1] ELSE <<8, 16, 32, 128>>[(y % 4) + 1]

\* The sum of the dot bits of a set of pixels.
RECURSIVE BitSum(_)
BitSum(S) ==
    IF S = {} THEN 0
    ELSE LET p == CHOOSE p \in S : TRUE
         IN  DotBit(p[1], p[2]) + BitSum(S \ {p})

\* The cells call o creates or writes.
CellsOf(o) ==
    IF o.op \in {"set", "unset", "toggle", "set_colored", "set_char"}
    THEN {CellOf(o.args[1], o.args[2])}
    ELSE IF o.op = "text"
    THEN {<<(o.args[1] \div 2) + i, o.args[2] \div 4>> :
              i \in {j \in 0..(Len(o.args[4]) - 1) : 2 * j <= o.args[3]}}
    ELSE IF o.op = "line"
    THEN LET ps == LineWrites(o.args[1], o.args[2], o.args[3], o.args[4], "release")
         IN  {CellOf(ps[i][1], ps[i][2]) : i \in 1..Len(ps)}
    ELSE {}

\* The cells created since construction or the last clear.
RECURSIVE CreatedUpTo(_)
CreatedUpTo(k) ==
    IF k <= 1 \/ hist[k].op = "clear" THEN {}
    ELSE CreatedUpTo(k - 1) \cup CellsOf(hist[k])

\* The cells probed by the properties: a window that holds every cell the calls
\* above can reach.
ProbeCells == (0..11) \X (0..3)

----------------------------------------------------------------------------
(* C1: right after set(x, y), get(x, y) is true; right after unset(x, y),  *)
(* get(x, y) is false; get is false on every pixel whose cell was never    *)
(* created, also for pixels outside the constructed width and height.      *)
C1_SetUnsetGet ==
    /\ Did("set") => Get(cvs, LastOp.args[1], LastOp.args[2])
    /\ Did("unset") => ~Get(cvs, LastOp.args[1], LastOp.args[2])
    /\ \A k \in ProbeCells \ CreatedUpTo(N) :
           \A p \in PixelsOf(k) : ~Get(cvs, p[1], p[2])

\* set(5,4), unset(5,4), then set(23,9) outside a 10 x 10 canvas.
C1_Witness ==
    /\ N = 4
    /\ hist[1].args = <<10, 10>>
    /\ hist[2].op = "set" /\ hist[2].args = <<5, 4>>
    /\ hist[3].op = "unset" /\ hist[3].args = <<5, 4>>
    /\ hist[4].op = "set" /\ hist[4].args = <<23, 9>>
    /\ Get(cvs, 23, 9)
    /\ ~Get(cvs, 5, 4)
    /\ ~Get(cvs, 22, 9)

----------------------------------------------------------------------------
(* C2: on a canvas built from set, unset, toggle and line only, frame() is *)
(* the rows joined by newlines with none trailing, each cell one character:*)
(* a space for bitmask 0 and else U+2800 + bitmask, the bitmask being the  *)
(* sum of the dot bits of the cell's pixels that are on.  new(10, 10),     *)
(* set(5, 4), line(2, 2, 8, 8) gives the three rows of the doc test.       *)

\* The pixels that are on after hist[1..k], for calls that only draw dots.
RECURSIVE OnUpTo(_)
OnUpTo(k) ==
    IF k <= 1 THEN {}
    ELSE LET o == hist[k]
             on == OnUpTo(k - 1)
             p == <<o.args[1], o.args[2]>>
         IN  IF o.op = "set" THEN on \cup {p}
             ELSE IF o.op = "unset" THEN on \ {p}
             ELSE IF o.op = "toggle" THEN (on \ {p}) \cup ({p} \ on)
             ELSE LET ps == LineWrites(o.args[1], o.args[2], o.args[3], o.args[4], "release")
                  IN  on \cup {ps[i] : i \in 1..Len(ps)}

GlyphOf(on, k) ==
    LET m == BitSum(PixelsOf(k) \cap on)
    IN  IF m = 0 THEN Blank ELSE BrailleBase + m

DocTestFrame ==
    <<32, 10372, 32, 32, 32, 32, 10,
      32, 32, 10265, 10372, 32, 32, 10,
      32, 32, 32, 32, 10241, 32>>

\* nrows rows of w cells each, joined by newlines.
FrameOf(on, nrows, w) ==
    [i \in 1..(nrows * (w + 1) - 1) |->
        IF i % (w + 1) = 0 THEN Newline
        ELSE GlyphOf(on, <<(i - 1) % (w + 1), (i - 1) \div (w + 1)>>)]

C2_Frame ==
    /\ OnlyOps({"set", "unset", "toggle", "line"}) =>
           LET rows == Rows(cvs)
           IN  Frame(cvs) = FrameOf(OnUpTo(N), Len(rows), Len(rows[1]))
    /\ ( /\ N = 3
         /\ hist[1].args = <<10, 10>>
         /\ hist[2].op = "set" /\ hist[2].args = <<5, 4>>
         /\ hist[3].op = "line" /\ hist[3].args = <<2, 2, 8, 8>> )
       => Frame(cvs) = DocTestFrame

C2_Witness ==
    /\ N = 3
    /\ hist[1].args = <<10, 10>>
    /\ hist[2].op = "set" /\ hist[2].args = <<5, 4>>
    /\ hist[3].op = "line" /\ hist[3].args = <<2, 2, 8, 8>>
    /\ Len(Rows(cvs)) = 3
    /\ Frame(cvs) = DocTestFrame

----------------------------------------------------------------------------
(* C3: after new(w, h) and set, unset and toggle calls only, rows() has    *)
(* max(h div 4, largest y div 4 touched) + 1 rows of                       *)
(* max(w div 2, largest x div 2 touched) + 1 characters each, a cell       *)
(* touched by unset or toggle alone included.                              *)
C3_Extent ==
    OnlyOps({"set", "unset", "toggle"}) =>
        LET touched == UNION {CellsOf(hist[k]) : k \in 2..N}
            ncols == SetMax({k[1] : k \in touched}, hist[1].args[1] \div 2) + 1
            nrows == SetMax({k[2] : k \in touched}, hist[1].args[2] \div 4) + 1
            rows == Rows(cvs)
        IN  /\ Len(rows) = nrows
            /\ \A i \in 1..nrows : Len(rows[i]) = ncols

\* new(10, 10), then unset(22, 13) and toggle(9, 14) twice: nothing is on, and the
\* frame is 4 rows of 12 columns.
C3_Witness ==
    /\ N = 4
    /\ hist[1].args = <<10, 10>>
    /\ hist[2].op = "unset" /\ hist[2].args = <<22, 13>>
    /\ hist[3].op = "toggle" /\ hist[3].args = <<9, 14>>
    /\ hist[4].op = "toggle" /\ hist[4].args = <<9, 14>>
    /\ cvs.chars[<<4, 3>>].mask = 0
    /\ Len(Rows(cvs)) = 4
    /\ Len(Rows(cvs)[1]) = 12

----------------------------------------------------------------------------
(* C5: set(x, y) applied twice leaves the Canvas that one application      *)
(* leaves, and so does a line drawn twice; toggle(x, y) applied twice      *)
(* leaves get(x, y) and every cell's dot bitmask as they were before.      *)
C5_Idempotent ==
    /\ Repeated("set") => cvs = Before
    /\ Repeated("line") => cvs = Before
    /\ Repeated("toggle") =>
           LET start == past[N - 2]
           IN  /\ Get(cvs, LastOp.args[1], LastOp.args[2])
                      = Get(start, LastOp.args[1], LastOp.args[2])
               /\ \A k \in DOMAIN cvs.chars \cup DOMAIN start.chars :
                      Entry(cvs, k).mask = Entry(start, k).mask

\* toggle(0, 0) twice on a cell that set_colored(1, 3) had written.
C5_Witness ==
    /\ N = 4
    /\ hist[2].op = "set_colored"
    /\ Repeated("toggle") /\ LastOp.args = <<0, 0>>
    /\ past[3].chars[<<0, 0>>].mask = 129
    /\ cvs.chars[<<0, 0>>].mask = 128

----------------------------------------------------------------------------
(* C6: after set(x, y) the cell of (x, y) holds the blank default          *)
(* character, is uncoloured, has the addressed dot on and its other dots   *)
(* as before; after set_char(x, y, c) the cell has bitmask 0 (get is false *)
(* for its 8 pixels), is uncoloured, and rows() shows c at the cell.       *)

\* What row k[2] of rows() holds for the cell k.
ShownAt(c, k) ==
    LET row == Rows(c)[k[2] + 1]
        from == Len(RowUpTo(c, k[2], k[1]))
        to == Len(RowUpTo(c, k[2], k[1] + 1))
    IN  SubSeq(row, from + 1, to)

C6_ModeSwitch ==
    /\ Did("set") =>
           LET x == LastOp.args[1]
               y == LastOp.args[2]
               k == CellOf(x, y)
           IN  /\ k \in DOMAIN cvs.chars
               /\ cvs.chars[k].ch = Blank
               /\ ~cvs.chars[k].colored
               /\ \A p \in PixelsOf(k) :
                      Get(cvs, p[1], p[2]) = (p = <<x, y>> \/ Get(Before, p[1], p[2]))
    /\ Did("set_char") =>
           LET k == CellOf(LastOp.args[1], LastOp.args[2])
           IN  /\ k \in DOMAIN cvs.chars
               /\ cvs.chars[k].mask = 0
               /\ \A p \in PixelsOf(k) : ~Get(cvs, p[1], p[2])
               /\ ~cvs.chars[k].colored
               /\ ShownAt(cvs, k) = <<LastOp.args[3]>>

\* set_colored(1, 3), set_char(0, 1, 'A'), set(0, 0), all on the cell (0, 0).
C6_Witness ==
    /\ N = 4
    /\ hist[2].op = "set_colored"
    /\ hist[3].op = "set_char" /\ hist[3].args = <<0, 1, 65>>
    /\ hist[4].op = "set" /\ hist[4].args = <<0, 0>>
    /\ past[2].chars[<<0, 0>>] = [mask |-> 128, ch |-> Blank, colored |-> TRUE, color |-> Red]
    /\ past[3].chars[<<0, 0>>] = [mask |-> 0, ch |-> 65, colored |-> FALSE, color |-> White]
    /\ cvs.chars[<<0, 0>>] = [mask |-> 1, ch |-> Blank, colored |-> FALSE, color |-> White]

----------------------------------------------------------------------------
(* C7: in every reachable state, a cell that holds an override character   *)
(* is shown by rows() as that character, never as a Braille glyph, and a   *)
(* cell with bitmask 0 and no override character is shown as a blank.      *)
C7_OverrideShown ==
    \A k \in DOMAIN cvs.chars :
        /\ cvs.chars[k].ch # Blank => ShownAt(cvs, k) = <<cvs.chars[k].ch>>
        /\ (cvs.chars[k].mask = 0 /\ cvs.chars[k].ch = Blank) => ShownAt(cvs, k) = <<Blank>>

----------------------------------------------------------------------------
(* C4: line(x1, y1, x2, y2) hands exactly r + 1 pixels to set, where       *)
(* r = max(|x2 - x1|, |y2 - y1|); the first is (x1, y1), the last is       *)
(* (x2, y2), and consecutive ones differ by at most 1 in x and in y; the   *)
(* line with equal endpoints writes that one pixel.                        *)
C4_LineWrites ==
    lcall # << >> =>
        LET r == Max(Abs(lcall[3] - lcall[1]), Abs(lcall[4] - lcall[2]))
        IN  /\ ~panicked
            /\ Len(writes) = r + 1
            /\ writes[1] = <<lcall[1], lcall[2]>>
            /\ writes[r + 1] = <<lcall[3], lcall[4]>>
            /\ \A i \in 1..r :
                   /\ Abs(writes[i + 1][1] - writes[i][1]) <= 1
                   /\ Abs(writes[i + 1][2] - writes[i][2]) <= 1

\* The same statement for the lines of at most 65535 pixels' extent.
C4_ShortLines == (lcall # << >> /\ Radius(lcall[1], lcall[2], lcall[3], lcall[4]) < U16) => C4_LineWrites

----------------------------------------------------------------------------
(* C8: the pixels ellipse_center writes are symmetric about both centre    *)
(* axes: with (xm + dx, ym + dy) written, (xm - dx, ym + dy) is written    *)
(* iff xm >= dx, (xm + dx, ym - dy) iff ym >= dy, and (xm - dx, ym - dy)   *)
(* iff both; a mirror that needs a negative coordinate is dropped and no   *)
(* written coordinate comes from unsigned wrap-around.                     *)
C8_Symmetric ==
    LET xm == eargs[1]
        ym == eargs[2]
    IN  \A p \in written :
            /\ p[1] >= 0
            /\ p[2] >= 0
            /\ <<xm + Abs(p[1] - xm), ym + Abs(p[2] - ym)>> \in written
            /\ (p[1] >= xm /\ p[2] >= ym) =>
                   LET dx == p[1] - xm
                       dy == p[2] - ym
                   IN  /\ <<xm - dx, ym + dy>> \in written <=> xm >= dx
                       /\ <<xm + dx, ym - dy>> \in written <=> ym >= dy
                       /\ <<xm - dx, ym - dy>> \in written <=> (xm >= dx /\ ym >= dy)

\* ellipse_center(1, 3, 3, 2) has returned: the pixel 4 to the right of the centre
\* has no mirror on the left, the pixel 1 to the right has one.
C8_Witness ==
    /\ epc = "done"
    /\ ecall.kind = "center"
    /\ eargs = <<1, 3, 3, 2>>
    /\ \E p \in written : p[1] - eargs[1] > eargs[1]
    /\ \E p \in written : p[1] < eargs[1]
    /\ \E p \in written : p[2] < eargs[2]

----------------------------------------------------------------------------
(* C9: every pixel ellipse_box(x1, y1, x2, y2) writes lies in the box:     *)
(* min(x1, x2) <= x <= max(x1, x2) and min(y1, y2) <= y <= max(y1, y2).    *)
C9_InsideBox ==
    (epc # "idle" /\ ecall.kind = "box") =>
        LET x1 == ecall.args[1]
            y1 == ecall.args[2]
            x2 == ecall.args[3]
            y2 == ecall.args[4]
        IN  \A p \in written :
                /\ Min(x1, x2) <= p[1] /\ p[1] <= Max(x1, x2)
                /\ Min(y1, y2) <= p[2] /\ p[2] <= Max(y1, y2)

----------------------------------------------------------------------------
(* C10: ellipse_box(x1, y1, x2, y2) and ellipse_box(x2, y2, x1, y1) hand   *)
(* the same centre and radii to ellipse_center, none of them negative.     *)
C10_CornerOrder ==
    (epc # "idle" /\ ecall.kind = "box") =>
        /\ eargs = EllipseBoxArgs(ecall.args[3], ecall.args[4], ecall.args[1], ecall.args[2])
        /\ \A i \in 1..4 : eargs[i] >= 0

----------------------------------------------------------------------------
(* C11: teleport(x, y), and forward and back which call it, leaves the     *)
(* Turtle's Canvas unchanged when the pen is up, draws the line between    *)
(* the rounded, clamped-to-zero old and new positions when the pen is down *)
(* (with line_colored iff colour is on), and in both cases ends with the   *)
(* stored position equal to the unclamped (x, y); up, down and toggle      *)
(* change only the pen flag, color and clean_brush only the colour state.  *)

TN == Len(thist)
TLast == thist[TN]
TDid(names) == TN >= 2 /\ TLast.op \in names

\* The Canvas a complete line between the clamped positions leaves.
LineBetween(t, to) ==
    IF t.use_color
    THEN LineColored(t.cvs, Clamp(t.x), Clamp(t.y), Clamp(to[1]), Clamp(to[2]),
                     t.brush_color, "release")
    ELSE Line(t.cvs, Clamp(t.x), Clamp(t.y), Clamp(to[1]), Clamp(to[2]), "release")

C11_Moves ==
    TDid({"teleport", "forward", "back"}) =>
        /\ ~tpanicked
        /\ turtle.x = TLast.to[1]
        /\ turtle.y = TLast.to[2]
        /\ ~tprev.brush => turtle.cvs = tprev.cvs
        /\ tprev.brush => turtle.cvs = LineBetween(tprev, TLast.to)
        /\ [turtle EXCEPT !.x = tprev.x, !.y = tprev.y, !.cvs = tprev.cvs] = tprev

C11_PenAndColour ==
    /\ TDid({"up"}) => turtle = [tprev EXCEPT !.brush = FALSE]
    /\ TDid({"down"}) => turtle = [tprev EXCEPT !.brush = TRUE]
    /\ TDid({"toggle"}) => turtle = [tprev EXCEPT !.brush = ~tprev.brush]
    /\ TDid({"color"}) =>
           turtle = [tprev EXCEPT !.use_color = TRUE, !.brush_color = TLast.args[1]]
    /\ TDid({"clean_brush"}) => turtle = [tprev EXCEPT !.use_color = FALSE]

C11_PenAndPosition == C11_Moves /\ C11_PenAndColour

\* The same statement for the moves whose line is at most 65535 pixels long.
C11_ShortMoves ==
    (TDid({"teleport", "forward", "back"}) => TLast.to \notin LongMoves)
        => C11_PenAndPosition

\* A pen-up move to (2.5, 0.5) made after a pen-down move: nothing new is drawn
\* and the position is the unrounded one.
C11_ShortMovesSeen ==
    /\ TN = 4
    /\ thist[1].args = <<0, 0>>
    /\ thist[2].op = "teleport" /\ thist[2].args = <<0, 7>>
    /\ thist[3].op = "up"
    /\ thist[4].op = "teleport" /\ thist[4].args = <<5, 1>>
    /\ turtle.x = 5 /\ turtle.y = 1
    /\ Get(turtle.cvs, 0, 4)
    /\ ~Get(turtle.cvs, 3, 1)

----------------------------------------------------------------------------
(* C12: clear() removes every cell and leaves the configured minimum width *)
(* and height unchanged: after clear() get is false for every pixel, the   *)
(* Canvas equals a freshly constructed Canvas of the same dimensions, and  *)
(* rows() has (minimum height + 1) rows of (minimum width + 1) blanks,     *)
(* whatever extent had been drawn before.                                  *)
C12_Clear ==
    Did("clear") =>
        LET w == hist[1].args[1]
            h == hist[1].args[2]
        IN  /\ \A k \in ProbeCells : \A p \in PixelsOf(k) : ~Get(cvs, p[1], p[2])
            /\ cvs = New(w, h)
            /\ cvs.width = Before.width
            /\ cvs.height = Before.height
            /\ Rows(cvs) = [i \in 1..((h \div 4) + 1) |-> [j \in 1..((w \div 2) + 1) |-> Blank]]

\* new(10, 10), set(23, 9) and unset(22, 13) stretch the frame to 4 rows of 12
\* columns; clear() brings it back to 3 rows of 6 blanks.
C12_Witness ==
    /\ N = 4
    /\ hist[1].args = <<10, 10>>
    /\ hist[2].op = "set" /\ hist[2].args = <<23, 9>>
    /\ hist[3].op = "unset" /\ hist[3].args = <<22, 13>>
    /\ hist[4].op = "clear"
    /\ Get(Before, 23, 9)
    /\ Len(Rows(Before)) = 4 /\ Len(Rows(Before)[1]) = 12
    /\ Len(Rows(cvs)) = 3 /\ Len(Rows(cvs)[1]) = 6
    /\ DOMAIN cvs.chars = {}

----------------------------------------------------------------------------
----------------------------------------------------------------------------
(* C14: ellipse_center(xm, ym, a, b) terminates for all radii a >= 0 and   *)
(* b >= 0, a = 0, b = 0 and both zero included, and so ellipse_box         *)
(* terminates for every box: the main loop reaches its break and the       *)
(* trailing loop reaches dx >= a.                                          *)
C14_Terminates == (epc \in {"box", "center"}) ~> (epc = "done")

\* The same statement for the calls with a radius that is not zero.
C14_OneRadius ==
    (epc \in {"box", "center"} /\ (eargs[3] > 0 \/ eargs[4] > 0)) ~> (epc = "done")

\* An iteration of the main loop that changes no local and does not break.
C14_LoopStuck ==
    /\ epc = "loop"
    /\ LoopUpdate(eargs[3], eargs[4], eloc) = [brk |-> FALSE, loc |-> eloc]

\* The main loop sticks with both radii zero only.
C14_StuckOnlyAtZero == C14_LoopStuck => (eargs[3] = 0 /\ eargs[4] = 0)

----------------------------------------------------------------------------
(* C15: for radii a >= 1 and b >= 1 the pixels ellipse_center(xm, ym, a, b)*)
(* writes span exactly the radii: the axis extremes (xm + a, ym) and       *)
(* (xm, ym + b) are written and no written pixel is farther than a         *)
(* horizontally or b vertically from the centre.                           *)
C15_SpansRadii ==
    (epc = "done" /\ eargs[3] >= 1 /\ eargs[4] >= 1) =>
        LET xm == eargs[1]
            ym == eargs[2]
            a == eargs[3]
            b == eargs[4]
        IN  /\ <<xm + a, ym>> \in written
            /\ <<xm, ym + b>> \in written
            /\ \A p \in written : Abs(p[1] - xm) <= a /\ Abs(p[2] - ym) <= b

\* The part of the statement that holds: the vertical extreme is written and no
\* pixel is farther than b vertically.
C15_Vertical ==
    (epc = "done" /\ eargs[3] >= 1 /\ eargs[4] >= 1) =>
        /\ <<eargs[1], eargs[2] + eargs[4]>> \in written
        /\ \A p \in written : Abs(p[2] - eargs[2]) <= eargs[4]

----------------------------------------------------------------------------
(* C16: the line rasteriser is symmetric in its endpoints:                 *)
(* line(x1, y1, x2, y2) and line(x2, y2, x1, y1) write the same set of     *)
(* pixels, so applied to equal canvases they leave equal canvases.         *)
C16_EndpointSymmetric ==
    (lcall # << >> /\ ~panicked) =>
        LET back == LineWrites(lcall[3], lcall[4], lcall[1], lcall[2], "release")
        IN  /\ Written(writes) = Written(back)
            /\ SetAll(cvs, writes, 1) = SetAll(cvs, back, 1)

\* What holds instead, for the lines of at most 65535 pixels: pixel i of one call
\* and pixel r - i of the other are equal on the longer axis and at most 1 apart
\* on the shorter one, and the two sets are equal for horizontal, vertical and
\* diagonal lines.
C16_WithinOne ==
    (lcall # << >> /\ Radius(lcall[1], lcall[2], lcall[3], lcall[4]) < U16) =>
        LET back == LineWrites(lcall[3], lcall[4], lcall[1], lcall[2], "release")
            r == Radius(lcall[1], lcall[2], lcall[3], lcall[4])
            xdiff == XDiff(lcall[1], lcall[3])
            ydiff == XDiff(lcall[2], lcall[4])
        IN  /\ Len(back) = Len(writes)
            /\ \A i \in 1..(r + 1) :
                   /\ Abs(writes[i][1] - back[r + 2 - i][1]) <= (IF xdiff = r THEN 0 ELSE 1)
                   /\ Abs(writes[i][2] - back[r + 2 - i][2]) <= (IF ydiff = r THEN 0 ELSE 1)
            /\ (xdiff = 0 \/ ydiff = 0 \/ xdiff = ydiff) => Written(writes) = Written(back)

----------------------------------------------------------------------------
(* C17: distinct pixels never share storage over the 32-bit coordinate     *)
(* range: set(x, y) does not change get(x', y') for any other pixel        *)
(* (x', y'), and writing a pixel whose cell column x div 2 or cell row     *)
(* y div 4 is larger than 65535 enlarges the rendered extent instead of    *)
(* landing in a lower-numbered cell.                                       *)

\* The pixels looked at: those written, and the pixels of the first cells.
WideProbes == WideInputs \cup UNION {PixelsOf(k) : k \in (0..2) \X (0..1)}

C17_NoSharedStorage ==
    Did("set") =>
        LET x == LastOp.args[1]
            y == LastOp.args[2]
        IN  /\ \A p \in WideProbes \ {<<x, y>>} :
                   Get(cvs, p[1], p[2]) = Get(Before, p[1], p[2])
            /\ MaxRow(cvs) >= x \div 2
            /\ MaxCol(cvs) >= y \div 4

\* The cell column and the cell row of the pixel fit u16.
Narrow(p) == p[1] \div 2 < U16 /\ p[2] \div 4 < U16

\* The same statement among the pixels whose cell column and row fit u16.
C17_NarrowPixels ==
    (Did("set") /\ Narrow(LastOp.args)) =>
        /\ \A p \in {q \in WideProbes : Narrow(q)} \ {LastOp.args} :
               Get(cvs, p[1], p[2]) = Get(Before, p[1], p[2])
        /\ MaxRow(cvs) >= LastOp.args[1] \div 2
        /\ MaxCol(cvs) >= LastOp.args[2] \div 4

====
